---------------------------- MODULE Spec2Model ----------------------------
(***************************************************************************)
(* A model of app-reviews-summary (src/utils.py, src/app.py).              *)
(*                                                                         *)
(* Text is a sequence of code points, each written as a string: an ASCII   *)
(* character as itself ("u", " "), any other code point as "U+XXXX".       *)
(* Scores are exact rationals [num, den] in lowest terms, den > 0; an emoji *)
(* weight w of the source is the integer 100 * w, a compound score c the   *)
(* integer 10000 * c (the lexicon scorer rounds to four decimals).         *)
(***************************************************************************)
EXTENDS Integers, Sequences, FiniteSets, Bags, TLC

VARIABLES
    \* ---- get_emoji_sentiment / get_misspelling_score called on their own
    text,             \* the argument
    pattern_order,    \* the order in which this process iterates the pattern set
    text_pc,          \* "start" | "emoji" | "misspell"
    text_out,         \* the value returned
    \* ---- analyze_sentiments_with_vader
    df,               \* the DataFrame: [index, review, has_sentiment, sentiment]
    progress_bar,     \* TRUE when a progress sink is passed
    status_text,      \* TRUE when a status sink is passed
    pc,               \* "idle" | "loop" | "return" | "done" | "raised"
    pos,              \* position of df.iterrows(), 1-based
    all_sentiments,   \* the list the loop appends to
    progress_calls,   \* the values passed to progress_bar.progress, in order
    status_calls,     \* the totals announced through status_text.text
    lexicon,          \* what the lexicon scorer has answered so far, by text
    scored,           \* per classified row: the signals and scores computed
    ret,              \* the pair (df, summary) returned
    runs,             \* number of calls made
    prev_ret,         \* what the previous call on this batch returned
    first_label,      \* the label each text received when first classified
    \* ---- load_reviews_for_app
    app_name, start_date, use_page_limit, all_app_reviews, continuation_token,
    pages_fetched, fetch_pc, requests, response, fetched,
    \* ---- the Streamlit script of app.py and its st.session_state
    selected_app,     \* the value of the sidebar selectbox
    current_reviews,  \* session_state['current_reviews']: which reviews are loaded
    current_app,      \* session_state['current_app'] ("" while not set)
    analyze_clicked,  \* session_state['analyze_clicked']
    analysis_results, \* session_state['analysis_results']: from which reviews
    displayed,        \* what the last run of the script showed
    fetches,          \* number of review sets loaded so far
    app_pc            \* "off" | "ready"

textVars  == <<text, pattern_order, text_pc, text_out>>
anVars    == <<df, progress_bar, status_text, pc, pos, all_sentiments,
               progress_calls, status_calls, lexicon, scored, ret, runs,
               prev_ret, first_label>>
fetchVars == <<app_name, start_date, use_page_limit, all_app_reviews,
               continuation_token, pages_fetched, fetch_pc, requests,
               response, fetched>>
appVars   == <<selected_app, current_reviews, current_app, analyze_clicked,
               analysis_results, displayed, fetches, app_pc>>
vars      == <<textVars, anVars, fetchVars, appVars>>

\* a review set is known by the app it was loaded for and the number of the
\* load; `labelled` is set once analyze_sentiments_with_vader has added its
\* sentiment column to it
NoReviews == [set |-> FALSE, app |-> "", load |-> 0, labelled |-> FALSE]
\* analysis results are known by the review set they were computed from
NoResults == [set |-> FALSE, app |-> "", load |-> 0]
NoDisplay == [section |-> FALSE, results |-> NoResults]

NoApp ==
    /\ selected_app = "" /\ current_reviews = NoReviews /\ current_app = ""
    /\ analyze_clicked = FALSE /\ analysis_results = NoResults
    /\ displayed = NoDisplay /\ fetches = 0 /\ app_pc = "off"

---------------------------------------------------------------------------
(* Bounds of the model *)

\* longest text enumerated over Alphabet
MaxLen == 3
\* largest batch analysed
MaxBatch == 2
\* calls of analyze_sentiments_with_vader per behaviour
MaxRuns == 2
\* reviews per page of the listing API in the model (the code asks for 200)
PageSize == 2
\* page requests after which a fetch without page limit is cut off
MaxRequests == 3
\* review sets loaded (fetched or taken from Kaggle) per behaviour
MaxLoads == 3

---------------------------------------------------------------------------
(* Exact rational arithmetic for the float scores *)

Abs(n) == IF n < 0 THEN -n ELSE n

RECURSIVE GCD(_, _)
GCD(a, b) == IF b = 0 THEN a ELSE GCD(b, a % b)

\* n / d in lowest terms (d > 0)
Rat(n, d) == LET g == GCD(Abs(n), d) IN [num |-> n \div g, den |-> d \div g]
RAdd(a, b) == Rat(a.num * b.den + b.num * a.den, a.den * b.den)
RMul(a, b) == Rat(a.num * b.num, a.den * b.den)
RSub(a, b) == Rat(a.num * b.den - b.num * a.den, a.den * b.den)
RGe(a, b) == a.num * b.den >= b.num * a.den
RLe(a, b) == a.num * b.den <= b.num * a.den
RGt(a, b) == a.num * b.den > b.num * a.den
RLt(a, b) == a.num * b.den < b.num * a.den
REq(a, b) == a.num * b.den = b.num * a.den

Max(a, b) == IF a >= b THEN a ELSE b

---------------------------------------------------------------------------
(* Characters *)

Whitespace == {" ", "\t", "\n"}

LowerCase == {"a","b","c","d","e","f","g","h","i","j","k","l","m",
              "n","o","p","q","r","s","t","u","v","w","x","y","z"}
Digits    == {"0","1","2","3","4","5","6","7","8","9"}
ToLower   == [c \in {"A","D","G","L","R","U"} |->
                 CASE c = "A" -> "a" [] c = "D" -> "d" [] c = "G" -> "g"
                   [] c = "L" -> "l" [] c = "R" -> "r" [] c = "U" -> "u"]

\* str.lower() on one code point (the upper-case letters the model uses)
LowerChar(c) == IF c \in DOMAIN ToLower THEN ToLower[c] ELSE c

\* regex \w: letters, digits, underscore
IsWordChar(c) == c \in LowerCase \cup DOMAIN ToLower \cup Digits \cup {"_"}

\* text.lower()
lower(t) == [i \in 1..Len(t) |-> LowerChar(t[i])]

RECURSIVE lstrip(_)
lstrip(t) == IF t # <<>> /\ Head(t) \in Whitespace THEN lstrip(Tail(t)) ELSE t

RECURSIVE rstrip(_)
rstrip(t) == IF t # <<>> /\ t[Len(t)] \in Whitespace
             THEN rstrip(SubSeq(t, 1, Len(t) - 1)) ELSE t

\* str.strip()
strip(t) == rstrip(lstrip(t))

\* str(row['review']): a missing value (NaN) prints as "nan"
NaN == [kind |-> "nan", chars |-> <<>>]
Str(t) == [kind |-> "str", chars |-> t]
str(v) == IF v.kind = "nan" THEN <<"n", "a", "n">> ELSE v.chars

\* re.findall(r'\b\w+\b', t): the maximal runs of word characters, in order
RECURSIVE findall_words(_, _, _)
findall_words(t, i, cur) ==
    IF i > Len(t)
    THEN IF cur = <<>> THEN <<>> ELSE <<cur>>
    ELSE IF IsWordChar(t[i])
         THEN findall_words(t, i + 1, Append(cur, t[i]))
         ELSE IF cur = <<>> THEN findall_words(t, i + 1, <<>>)
              ELSE <<cur>> \o findall_words(t, i + 1, <<>>)

---------------------------------------------------------------------------
(* get_emoji_sentiment *)

\* The table of the source: key (a Python string, here its code points)
\* to 100 * weight.  The key of the red heart is two code points long.
EMOJI_SENTIMENT ==
    <<"U+1F60A">> :> 80 @@ <<"U+1F60D">> :> 90 @@ <<"U+1F60E">> :> 70 @@ <<"U+1F604">> :> 85 @@
    <<"U+1F603">> :> 85 @@ <<"U+1F601">> :> 80 @@ <<"U+1F606">> :> 80 @@ <<"U+1F605">> :> 70 @@
    <<"U+1F602">> :> 80 @@ <<"U+1F923">> :> 85 @@ <<"U+1F970">> :> 90 @@ <<"U+2764", "U+FE0F">> :> 90 @@
    <<"U+1F496">> :> 85 @@ <<"U+2728">> :> 60 @@ <<"U+1F31F">> :> 70 @@ <<"U+1F4AB">> :> 65 @@
    <<"U+1F389">> :> 70 @@ <<"U+1F3C6">> :> 60 @@ <<"U+1F44F">> :> 60 @@ <<"U+1F44D">> :> 70 @@
    <<"U+1F4AA">> :> 60 @@ <<"U+1F525">> :> 65 @@ <<"U+1F308">> :> 70 @@ <<"U+1F338">> :> 60 @@
    <<"U+1F62D">> :> -80 @@ <<"U+1F622">> :> -70 @@ <<"U+1F614">> :> -60 @@ <<"U+1F61E">> :> -60 @@
    <<"U+1F615">> :> -40 @@ <<"U+1F61F">> :> -50 @@ <<"U+1F623">> :> -50 @@ <<"U+1F616">> :> -70 @@
    <<"U+1F62B">> :> -70 @@ <<"U+1F629">> :> -70 @@ <<"U+1F621">> :> -90 @@ <<"U+1F620">> :> -80 @@
    <<"U+1F92C">> :> -95 @@ <<"U+1F92F">> :> -60 @@ <<"U+1F633">> :> -30 @@ <<"U+1F631">> :> -70 @@
    <<"U+1F628">> :> -70 @@ <<"U+1F630">> :> -60 @@ <<"U+1F625">> :> -50 @@ <<"U+1F613">> :> -50

\* `char in EMOJI_SENTIMENT` for one character of the text
InTable(c) == <<c>> \in DOMAIN EMOJI_SENTIMENT

\* the loop `for char in text`: (score, count) after the characters from i on
RECURSIVE EmojiLoop(_, _, _, _)
EmojiLoop(t, i, score, count) ==
    IF i > Len(t) THEN <<score, count>>
    ELSE IF InTable(t[i])
         THEN EmojiLoop(t, i + 1, score + EMOJI_SENTIMENT[<<t[i]>>], count + 1)
         ELSE EmojiLoop(t, i + 1, score, count)

\* return score / max(1, count)
get_emoji_sentiment(t) ==
    LET r == EmojiLoop(t, 1, 0, 0)
    IN  Rat(r[1], 100 * Max(1, r[2]))

---------------------------------------------------------------------------
(* get_misspelling_score *)

\* The pattern set of the source, each pattern \b(a|b|...)\b written as the
\* set of its alternatives, in the order the source lists them.
misspellings ==
    << {<<"p", "l", "z">>, <<"p", "l", "s">>, <<"p", "l", "0", "x">>},
       {<<"t", "h", "x">>, <<"t", "h", "a", "n", "x">>, <<"t", "h", "n", "k", "s">>, <<"t", "h", "n", "k", "x">>, <<"t", "h", "n", "x">>, <<"t", "h", "n", "q">>, <<"t", "h", "n", "k", "u">>, <<"t", "y">>, <<"t", "y", "s", "m">>, <<"t", "y", "v", "m">>},
       {<<"u">>, <<"u", "r">>, <<"y", "r">>},
       {<<"r">>, <<"a", "r", "e">>},
       {<<"w", "o", "n", "t">>},
       {<<"d", "o", "n", "t">>},
       {<<"c", "a", "n", "t">>},
       {<<"i", "m">>, <<"i", " ", "m">>},
       {<<"i", "v", "e">>, <<"i", " ", "v", "e">>},
       {<<"a", "p", "p">>, <<"a", "p", "p", "z">>, <<"a", "p">>, <<"a", "p", "k">>},
       {<<"a", "w", "e", "s", "o", "m", "e">>, <<"a", "w", "s", "m">>, <<"a", "w", "s", "u", "m">>},
       {<<"b", "a", "d">>, <<"b", "a", "d", "d">>, <<"b", "a", "d", "d", "d">>, <<"b", "a", "d", "d", "d", "d">>, <<"b", "a", "d", "d", "d", "d", "d">>},
       {<<"g", "o", "o", "d">>, <<"g", "u", "d">>},
       {<<"g", "r", "e", "a", "t">>, <<"g", "r", "8">>, <<"g", "r", "t">>, <<"g", "r", "8", "t">>, <<"g", "r", "8", "t", "e", "s", "t">>, <<"g", "r", "a", "t", "e">>, <<"g", "r", "e", "a", "t", "f", "u", "l">>, <<"g", "r", "a", "t">>},
       {<<"l", "o", "v", "e">>, <<"l", "u", "v">>, <<"l", "o", "v">>, <<"l", "o", "v", "v">>, <<"l", "o", "v", "v", "e">>, <<"l", "o", "v", "v", "v">>, <<"l", "o", "v", "v", "v", "e">>, <<"l", "o", "v", "v", "v", "e", "d">>, <<"l", "o", "v", "v", "v", "e", "r">>, <<"l", "o", "v", "v", "v", "i", "n", "g">>, <<"l", "o", "v", "v", "v", "v", "i", "n", "g">>},
       {<<"h", "a", "t", "e">>, <<"h", "a", "e", "t">>, <<"h", "8">>, <<"h", "8", "e", "d">>, <<"h", "8", "i", "n", "g">>, <<"h", "8", "r">>, <<"h", "8", "r", "s">>, <<"h", "8", "s">>, <<"h", "8", "t", "e", "r">>, <<"h", "8", "t", "e", "r", "s">>, <<"h", "8", "t", "r">>, <<"h", "8", "t", "r", "s">>},
       {<<"w", "o", "r", "s", "t">>, <<"w", "r", "s", "t">>, <<"w", "0", "r", "s", "t">>, <<"w", "0", "r", "s", "e">>} >>

NPatterns == Len(misspellings)

\* Orders in which `for pattern in misspellings` may visit the set (a Python
\* set of strings has no fixed order): every rotation of the listed order,
\* forwards and backwards.
PatternOrders ==
    { [i \in 1..NPatterns |-> ((i - 1 + k) % NPatterns) + 1] : k \in 0..(NPatterns - 1) }
    \cup
    { [i \in 1..NPatterns |-> ((NPatterns - i + k) % NPatterns) + 1] : k \in 0..(NPatterns - 1) }

\* re.fullmatch(pattern, word)
fullmatch(p, word) == word \in misspellings[p]

\* the inner loop with its break: 1 if a pattern from position j on matches
RECURSIVE PatternLoop(_, _, _)
PatternLoop(word, order, j) ==
    IF j > Len(order) THEN 0
    ELSE IF fullmatch(order[j], word) THEN 1
         ELSE PatternLoop(word, order, j + 1)

\* the outer loop `for word in words`
RECURSIVE WordLoop(_, _, _)
WordLoop(words, order, i) ==
    IF i > Len(words) THEN 0
    ELSE PatternLoop(words[i], order, 1) + WordLoop(words, order, i + 1)

\* (a faulty variant: the words of the text as written, .lower() forgotten)
WordsOf_NoLower(t) == findall_words(t, 1, <<>>)

\* words = re.findall(r'\b\w+\b', text.lower())
WordsOf(t) == findall_words(lower(t), 1, <<>>)

get_misspelling_score(t, order) ==
    LET words == WordsOf(t)
    IN  IF words = <<>> THEN Rat(0, 1)
        ELSE Rat(WordLoop(words, order, 1), Len(words))

---------------------------------------------------------------------------
(* The two extraction functions called on their own *)

Alphabet == {"u", "r", "U", " ", "!", "U+1F60A", "U+1F621", "U+2764", "U+FE0F"}

RECURSIVE SeqsUpTo(_, _)
SeqsUpTo(S, n) ==
    IF n = 0 THEN {<<>>}
    ELSE LET shorter == SeqsUpTo(S, n - 1)
         IN  shorter \cup { Append(s, c) : s \in shorter, c \in S }

\* "gr8 app luv it" and "u did it so well" (one word in five is informal)
SampleGr8  == <<"g","r","8"," ","a","p","p"," ","l","u","v"," ","i","t">>
SampleFive == <<"u"," ","d","i","d"," ","i","t"," ","s","o"," ","w","e","l","l">>

Texts == SeqsUpTo(Alphabet, MaxLen) \cup DOMAIN EMOJI_SENTIMENT
         \cup {SampleGr8, SampleFive}

\* what the listing API answered last: "page" or "raise", the size of the
\* page, the number of its reviews older than the start date, its token
NoResponse == [kind |-> "none", size |-> 0, old |-> 0, token |-> "None"]

NoFetch ==
    /\ app_name = "none" /\ start_date = 0 /\ use_page_limit = FALSE
    /\ all_app_reviews = EmptyBag /\ continuation_token = "None"
    /\ pages_fetched = 0 /\ fetch_pc = "off" /\ requests = 0
    /\ response = NoResponse /\ fetched = EmptyBag

EmptyDf == [index |-> <<>>, review |-> <<>>, has_sentiment |-> FALSE, sentiment |-> <<>>]
NoSummary == [title |-> "", parts |-> <<>>]
NoRet == [set |-> FALSE, df |-> EmptyDf, summary |-> NoSummary]

NoAnalysis ==
    /\ df = EmptyDf
    /\ progress_bar = FALSE /\ status_text = FALSE /\ pc = "off" /\ pos = 0
    /\ all_sentiments = <<>> /\ progress_calls = <<>> /\ status_calls = <<>>
    /\ lexicon = <<>> /\ scored = <<>> /\ ret = NoRet /\ runs = 0
    /\ prev_ret = NoRet /\ first_label = <<>>

NoText ==
    /\ text = <<>> /\ pattern_order = <<>> /\ text_pc = "off"
    /\ text_out = Rat(0, 1)

InitText ==
    /\ text \in Texts
    /\ pattern_order \in PatternOrders
    /\ text_pc = "start"
    /\ text_out = Rat(0, 1)
    /\ NoAnalysis /\ NoFetch /\ NoApp

CallEmoji ==
    /\ text_pc = "start"
    /\ text_out' = get_emoji_sentiment(text)
    /\ text_pc' = "emoji"
    /\ UNCHANGED <<text, pattern_order, anVars, fetchVars, appVars>>

CallMisspelling ==
    /\ text_pc = "start"
    /\ text_out' = get_misspelling_score(text, pattern_order)
    /\ text_pc' = "misspell"
    /\ UNCHANGED <<text, pattern_order, anVars, fetchVars, appVars>>

NextText == CallEmoji \/ CallMisspelling

SpecText == InitText /\ [][NextText]_vars

---------------------------------------------------------------------------
(* analyze_sentiments_with_vader *)

\* Compound scores the lexicon scorer may answer (10000 * score).  The scorer
\* is a library outside the repository: a fixed function of the text, in
\* [-1, 1].  In a batch its value for a text is chosen when the text is first
\* scored (LexiconScores); for a single row it is fixed beforehand, from the
\* finer RowScores that sit on and around the thresholds.  On these scores
\* and the texts of RowPool the float arithmetic of the source and the exact
\* arithmetic here give the same labels.
LexiconScores == {-1200, 0, 1200}
RowScores == {-10000, -1500, -1300, -1251, -1250, -1249, -1200, -1001, -1000, -999, 0,
              999, 1000, 1001, 1200, 1249, 1250, 1251, 10000}

\* (a faulty variant: the compound score of the previous row is carried into this one)
Compound_Carried(s) ==
    IF scored = <<>> THEN Rat(s, 10000)
    ELSE RAdd(Rat(s, 10000), scored[Len(scored)].base)

\* scores['compound']
Compound(s) == Rat(s, 10000)

\* (a faulty variant: the emptiness test on the text as written, .strip() forgotten)
review_text_unstripped(v) == str(v)

\* review_text_stripped = str(row['review']).strip()
review_text_stripped(v) == strip(str(v))

\* compound_score += emoji_score * 0.3
AddEmoji(compound_score, emoji_score) ==
    RAdd(compound_score, RMul(emoji_score, Rat(3, 10)))

\* (a faulty variant: the penalty subtracts 0.2 instead of scaling by 0.8)
ApplyPenalty_Subtract(compound_score, misspelling_score) ==
    IF RGt(misspelling_score, Rat(2, 10))
    THEN RSub(compound_score, Rat(2, 10))
    ELSE compound_score

\* if misspelling_score > 0.2: compound_score *= 0.8
ApplyPenalty(compound_score, misspelling_score) ==
    IF RGt(misspelling_score, Rat(2, 10))
    THEN RMul(compound_score, Rat(8, 10))
    ELSE compound_score

\* (a faulty variant: strict comparisons at the two thresholds)
Threshold_Strict(compound_score) ==
    IF RGt(compound_score, Rat(1, 10)) THEN "Positive"
    ELSE IF RLt(compound_score, Rat(-1, 10)) THEN "Negative"
    ELSE "Neutral"

\* the final if / elif / else
Threshold(compound_score) ==
    IF RGe(compound_score, Rat(1, 10)) THEN "Positive"
    ELSE IF RLe(compound_score, Rat(-1, 10)) THEN "Negative"
    ELSE "Neutral"

\* One pass of the loop body up to all_sentiments.append: what is computed
\* for a row whose value is v when the lexicon scorer answers `base`.
ScoreRow(v, base, order) ==
    LET stripped == review_text_stripped(v)
    IN  IF stripped = <<>>
        THEN [text |-> str(v), stripped |-> stripped, invoked |-> {},
              base |-> Rat(0, 1), emoji |-> Rat(0, 1), misspelling |-> Rat(0, 1),
              before |-> Rat(0, 1), adjusted |-> Rat(0, 1),
              sentiment |-> "Inconclusive"]
        ELSE LET emoji_score == get_emoji_sentiment(stripped)
                 with_emoji == AddEmoji(Compound(base), emoji_score)
                 misspelling_score == get_misspelling_score(stripped, order)
                 adjusted == ApplyPenalty(with_emoji, misspelling_score)
             IN  [text |-> str(v), stripped |-> stripped,
                  invoked |-> {"lexicon", "emoji", "misspelling"},
                  base |-> Compound(base), emoji |-> emoji_score,
                  misspelling |-> misspelling_score,
                  before |-> with_emoji, adjusted |-> adjusted,
                  sentiment |-> Threshold(adjusted)]

\* progress_bar.progress((i + 1) / total_reviews), i the row's index label
ProgressValue(i, total_reviews) == Rat(i + 1, total_reviews)

InUnit(r) == RGe(r, Rat(0, 1)) /\ RLe(r, Rat(1, 1))

\* df['sentiment'].value_counts(), read with .get(category, 0)
CountOf(sentiments, category) ==
    Cardinality({ i \in 1..Len(sentiments) : sentiments[i] = category })

\* (a faulty variant: the category list without the label of empty reviews)
categories_NoInconclusive == <<"Positive", "Negative", "Neutral", "Spam">>

categories == <<"Positive", "Negative", "Neutral", "Spam", "Inconclusive">>

\* f"{percentage:.1f}" of count / total * 100, in tenths (round half to even)
PercentTenths(count, total) ==
    IF total > 0
    THEN LET q == (count * 1000) \div total
             r == (count * 1000) % total
         IN  IF 2 * r < total THEN q
             ELSE IF 2 * r > total THEN q + 1
             ELSE IF q % 2 = 0 THEN q ELSE q + 1
    ELSE 0

SummaryOf(sentiments) ==
    [title |-> "**Sentiment Distribution (VADER):**",
     parts |-> [c \in 1..Len(categories) |->
                  [category |-> categories[c],
                   count |-> CountOf(sentiments, categories[c]),
                   percentage |-> PercentTenths(CountOf(sentiments, categories[c]),
                                                Len(sentiments))]]]

\* (a faulty variant: no early return, the summary of zero rows instead of the message)
EmptyMessage_Summary == SummaryOf(<<>>)

\* return df, "No reviews to analyze."
EmptyMessage == [title |-> "No reviews to analyze.", parts |-> <<>>]

\* df.empty
IsEmpty(d) == Len(d.review) = 0

\* Review values of the batches analysed
ReviewPool ==
    { Str(<<>>), Str(<<" ", "\n">>), Str(<<" ", "o", "k">>), Str(SampleGr8),
      Str(<<"U+1F60A">>) }

\* Review values classified one at a time
RowPool ==
    ReviewPool \cup
    { Str(SampleFive), Str(<<"b", "a", "d", " ", "U+1F621">>), NaN,
      Str(<<"\t", " ">>), Str(<<"U+2764", "U+FE0F">>), Str(<<"U", " ", "r", "!">>),
      Str(<<"U+1F621", "U+1F60A", "U+1F60A">>) }

\* the pattern set visited in the listed order, and backwards
LoopOrders == { [i \in 1..NPatterns |-> i], [i \in 1..NPatterns |-> NPatterns + 1 - i] }

\* Index labels a batch of n rows may carry: a RangeIndex, the same shifted
\* by one (rows dropped in front), the same reversed (rows re-ordered).
IndexesOf(n) ==
    { [i \in 1..n |-> i - 1], [i \in 1..n |-> i], [i \in 1..n |-> n - i] }

Batches ==
    UNION { { [index |-> ix, review |-> rv, has_sentiment |-> FALSE, sentiment |-> <<>>] :
                ix \in IndexesOf(n), rv \in [1..n -> ReviewPool] } : n \in 0..MaxBatch }

Init ==
    /\ df \in Batches
    /\ progress_bar \in BOOLEAN
    /\ status_text \in BOOLEAN
    /\ pc = "idle" /\ pos = 0
    /\ all_sentiments = <<>> /\ progress_calls = <<>> /\ status_calls = <<>>
    /\ lexicon = <<>> /\ scored = <<>> /\ ret = NoRet /\ runs = 0
    /\ prev_ret = NoRet /\ first_label = <<>>
    /\ NoText /\ NoFetch /\ NoApp

\* seq[::-1]
Reverse(q) == [i \in 1..Len(q) |-> q[Len(q) + 1 - i]]

\* df.iloc[::-1]: the same rows, last first, each with its index label
Reversed(d) == [index |-> Reverse(d.index), review |-> Reverse(d.review),
                has_sentiment |-> d.has_sentiment, sentiment |-> Reverse(d.sentiment)]

\* Entry of the function, up to the start of the loop.  The first call gets
\* the batch; a later call gets the batch the previous call returned, as it
\* is or with its rows in reverse order.
Call ==
    /\ pc \in {"idle", "done"}
    /\ runs < MaxRuns
    /\ runs' = runs + 1
    /\ progress_calls' = <<>>
    /\ all_sentiments' = <<>>
    /\ scored' = <<>>
    /\ \E same \in BOOLEAN :
         /\ same \/ (runs > 0 /\ Len(df.review) > 1)
         /\ df' = IF same THEN df ELSE Reversed(df)
         /\ prev_ret' = IF same THEN ret ELSE NoRet
    /\ IF IsEmpty(df')
       THEN /\ ret' = [set |-> TRUE, df |-> df', summary |-> EmptyMessage]
            /\ status_calls' = <<>>
            /\ pc' = "done"
            /\ pos' = 0
       ELSE /\ ret' = NoRet
            /\ status_calls' = IF status_text THEN <<Len(df'.review)>> ELSE <<>>
            /\ pc' = "loop"
            /\ pos' = 1
    /\ UNCHANGED <<progress_bar, status_text, lexicon, first_label, textVars, fetchVars, appVars>>

\* One iteration of `for i, row in df.iterrows()`
LoopStep ==
    /\ pc = "loop"
    /\ LET v == df.review[pos]
           stripped == review_text_stripped(v)
           total_reviews == Len(df.review)
       IN  \E base \in LexiconScores \cup RowScores, order \in LoopOrders :
             /\ IF stripped = <<>> THEN base = 0
                ELSE IF stripped \in DOMAIN lexicon THEN base = lexicon[stripped]
                ELSE base \in LexiconScores
             /\ lexicon' = IF stripped = <<>> \/ stripped \in DOMAIN lexicon
                           THEN lexicon ELSE lexicon @@ (stripped :> base)
             /\ \E row \in {ScoreRow(v, base, order)} :
                    /\ scored' = Append(scored, row)
                    /\ all_sentiments' = Append(all_sentiments, row.sentiment)
                    /\ first_label' = IF row.text \in DOMAIN first_label THEN first_label
                                      ELSE first_label @@ (row.text :> row.sentiment)
             /\ IF progress_bar
                THEN LET value == ProgressValue(df.index[pos], total_reviews)
                     IN  /\ progress_calls' = Append(progress_calls, value)
                         /\ \/ /\ pc' = IF pos = total_reviews THEN "return" ELSE "loop"
                               /\ pos' = IF pos = total_reviews THEN pos ELSE pos + 1
                            \/ /\ ~InUnit(value)
                               /\ pc' = "raised"
                               /\ pos' = pos
                ELSE /\ progress_calls' = progress_calls
                     /\ pc' = IF pos = total_reviews THEN "return" ELSE "loop"
                     /\ pos' = IF pos = total_reviews THEN pos ELSE pos + 1
    /\ UNCHANGED <<df, progress_bar, status_text, status_calls, ret, runs, prev_ret,
                   textVars, fetchVars, appVars>>

\* df['sentiment'] = all_sentiments; the summary; return df, summary
Return ==
    /\ pc = "return"
    /\ df' = [df EXCEPT !.has_sentiment = TRUE, !.sentiment = all_sentiments]
    /\ ret' = [set |-> TRUE, df |-> df', summary |-> SummaryOf(df'.sentiment)]
    /\ pc' = "done"
    /\ UNCHANGED <<progress_bar, status_text, pos, all_sentiments, progress_calls,
                   status_calls, lexicon, scored, runs, prev_ret, first_label,
                   textVars, fetchVars, appVars>>

Next == Call \/ LoopStep \/ Return

Spec == Init /\ [][Next]_vars

\* One row at a time: a batch of one row, the scorer's answer for its text
\* fixed beforehand.
InitRow ==
    /\ \E v \in RowPool, ix \in IndexesOf(1), base \in RowScores :
         /\ df = [index |-> ix, review |-> <<v>>, has_sentiment |-> FALSE, sentiment |-> <<>>]
         /\ lexicon = IF review_text_stripped(v) = <<>> THEN <<>>
                      ELSE (review_text_stripped(v) :> base)
    /\ progress_bar \in BOOLEAN
    /\ status_text = progress_bar
    /\ pc = "idle" /\ pos = 0
    /\ all_sentiments = <<>> /\ progress_calls = <<>> /\ status_calls = <<>>
    /\ scored = <<>> /\ ret = NoRet /\ runs = 0
    /\ prev_ret = NoRet /\ first_label = <<>>
    /\ NoText /\ NoFetch /\ NoApp

SpecRow == InitRow /\ [][Next]_vars

---------------------------------------------------------------------------
(* load_reviews_for_app *)

max_pages == 20

\* two of the apps of APPS (the others fetch like Navi); dates are day numbers, the two start dates 0 and 153
\* days after 2024-05-01
AppNames == {"Navi", "super.money"}
StartDateOf(app) == IF app = "super.money" THEN 153 ELSE 0
UsePageLimitOf(app) == app # "super.money"

\* (a faulty variant: the page limit compared with > instead of >=)
PageLimitReached_OffByOne(limit, pages) == limit /\ pages > max_pages

\* `use_page_limit and pages_fetched >= max_pages`
PageLimitReached(limit, pages) == limit /\ pages >= max_pages

\* r['at'].replace(tzinfo=utc) >= start_date
IsNew(at, start) == at >= start

\* new_reviews = [r for r in result if ...]
NewReviews(result, start) == SelectSeq(result, LAMBDA at : IsNew(at, start))

RECURSIVE BagOfSeq(_)
BagOfSeq(q) == IF q = <<>> THEN EmptyBag ELSE SetToBag({Head(q)}) (+) BagOfSeq(Tail(q))

\* Dates the API may put on a review: the day before the start date, the
\* start date, the day after.
DatesAround(start) == {start - 1, start, start + 1}

\* Pages the API may answer: at most PageSize reviews (the code asks for 200)
PagesFor(start) == UNION { [1..n -> DatesAround(start)] : n \in 0..PageSize }

Tokens == {"None", "token"}

InitFetch ==
    /\ app_name \in AppNames
    /\ start_date = StartDateOf(app_name)
    /\ use_page_limit = UsePageLimitOf(app_name)
    /\ all_app_reviews = EmptyBag
    /\ continuation_token = "None"
    /\ pages_fetched = 0
    /\ fetch_pc = "loop"
    /\ requests = 0
    /\ response = NoResponse
    /\ fetched = EmptyBag
    /\ NoText /\ NoAnalysis /\ NoApp

\* `if use_page_limit and pages_fetched >= max_pages: break`
FetchLimit ==
    /\ fetch_pc = "loop"
    /\ PageLimitReached(use_page_limit, pages_fetched)
    /\ fetch_pc' = "finish"
    /\ UNCHANGED <<app_name, start_date, use_page_limit, all_app_reviews,
                   continuation_token, pages_fetched, requests, response, fetched,
                   textVars, anVars, appVars>>

\* One iteration that calls reviews(...) and gets a page
FetchPage ==
    /\ fetch_pc = "loop"
    /\ ~PageLimitReached(use_page_limit, pages_fetched)
    /\ use_page_limit \/ requests < MaxRequests
    /\ \E result \in PagesFor(start_date), token \in Tokens :
         /\ requests' = requests + 1
         /\ response' = [kind |-> "page", size |-> Len(result),
                          old |-> Len(result) - Len(NewReviews(result, start_date)),
                          token |-> token]
         /\ IF result = <<>>
            THEN /\ fetch_pc' = "finish"
                 /\ UNCHANGED <<continuation_token, pages_fetched, all_app_reviews>>
            ELSE LET new_reviews == NewReviews(result, start_date)
                 IN  /\ continuation_token' = token
                     /\ pages_fetched' = IF use_page_limit THEN pages_fetched + 1
                                         ELSE pages_fetched
                     /\ all_app_reviews' = all_app_reviews (+) BagOfSeq(new_reviews)
                     /\ fetch_pc' = IF Len(new_reviews) < Len(result) \/ token = "None"
                                    THEN "finish" ELSE "loop"
    /\ UNCHANGED <<app_name, start_date, use_page_limit, fetched, textVars, anVars, appVars>>

\* One iteration in which reviews(...) or the date filter raises: the
\* exception is caught and the loop left.  The filter raises (a review with
\* no 'at') after the token and the page counter are updated.
FetchRaise ==
    /\ fetch_pc = "loop"
    /\ ~PageLimitReached(use_page_limit, pages_fetched)
    /\ use_page_limit \/ requests < MaxRequests
    /\ requests' = requests + 1
    /\ fetch_pc' = "finish"
    /\ \/ /\ response' = [kind |-> "raise", size |-> 0, old |-> 0, token |-> "None"]
          /\ UNCHANGED <<continuation_token, pages_fetched>>
       \/ \E token \in Tokens :
            /\ response' = [kind |-> "raise", size |-> 1, old |-> 0, token |-> token]
            /\ continuation_token' = token
            /\ pages_fetched' = IF use_page_limit THEN pages_fetched + 1
                                ELSE pages_fetched
    /\ UNCHANGED <<app_name, start_date, use_page_limit, all_app_reviews, fetched,
                   textVars, anVars, appVars>>

\* After the loop: an empty DataFrame, or the collected reviews
FetchReturn ==
    /\ fetch_pc = "finish"
    /\ fetched' = all_app_reviews
    /\ fetch_pc' = "done"
    /\ UNCHANGED <<app_name, start_date, use_page_limit, all_app_reviews,
                   continuation_token, pages_fetched, requests, response,
                   textVars, anVars, appVars>>

NextFetch == FetchLimit \/ FetchPage \/ FetchRaise \/ FetchReturn

SpecFetch == InitFetch /\ [][NextFetch]_vars

---------------------------------------------------------------------------
(* the Streamlit script of app.py: one action is one user interaction and  *)
(* the run(s) of the script it causes, st.rerun() included                 *)

\* the options of the sidebar selectbox
Options == {"Navi", "Kiwi", "super.money", "Pop"}

\* APPS[selected_app]['source']
SourceOf(app) == IF app = "super.money" THEN "playstore" ELSE "kaggle"

default_dataset == "lava18/google-play-store-apps"
\* what the text input can hold: nothing, or a dataset name
Slugs == {"", default_dataset}
\* f"Kaggle: {dataset_slug}"
KaggleLabel(dataset_slug) == "Kaggle: " \o dataset_slug

\* what a fetch can come to: a frame with reviews, an empty frame, or an
\* exception (a None from fetch_and_load_kaggle_dataset raises at `.empty`)
FetchOutcomes(app) ==
    IF SourceOf(app) = "kaggle" THEN {"reviews", "empty", "None"}
    ELSE {"reviews", "empty", "raise"}

\* the condition of the analysis section
AnalysisSection(sel, cur_app, reviews) == reviews.set /\ cur_app = sel

\* what the tail of the script shows: the analysis section when reviews are
\* loaded for the selected app, and in it whatever analysis_results holds
Display(sel, cur_app, reviews, results) ==
    [section |-> AnalysisSection(sel, cur_app, reviews),
     results |-> IF AnalysisSection(sel, cur_app, reviews) /\ results.set
                 THEN results ELSE NoResults]

\* the first run of the script in a new session: nothing clicked, the
\* selectbox at index 0, session_state empty
InitApp ==
    /\ selected_app = "Navi"
    /\ current_reviews = NoReviews /\ current_app = ""
    /\ analyze_clicked = FALSE /\ analysis_results = NoResults
    /\ displayed = Display("Navi", "", NoReviews, NoResults)
    /\ fetches = 0 /\ app_pc = "ready"
    /\ NoText /\ NoAnalysis /\ NoFetch

\* the user picks another app in the sidebar; the script runs with no button
\* pressed
SelectApp ==
    /\ app_pc = "ready"
    /\ \E app \in Options \ {selected_app} :
        /\ selected_app' = app
        /\ displayed' = Display(app, current_app, current_reviews, analysis_results)
    /\ UNCHANGED <<current_reviews, current_app, analyze_clicked, analysis_results,
                   fetches, app_pc, textVars, anVars, fetchVars>>

\* "Load from Kaggle" pressed; the script goes on to its tail in the same run
LoadFromKaggle ==
    /\ app_pc = "ready"
    /\ \E dataset_slug \in Slugs, outcome \in {"df", "None"} :
        /\ (dataset_slug # "" /\ outcome = "df") => fetches < MaxLoads
        /\ IF dataset_slug # "" /\ outcome = "df"
           THEN /\ current_reviews' = [set |-> TRUE, app |-> KaggleLabel(dataset_slug),
                                       load |-> fetches + 1, labelled |-> FALSE]
                /\ current_app' = KaggleLabel(dataset_slug)
                /\ fetches' = fetches + 1
           ELSE UNCHANGED <<current_reviews, current_app, fetches>>
    /\ displayed' = Display(selected_app, current_app', current_reviews', analysis_results)
    /\ UNCHANGED <<selected_app, analyze_clicked, analysis_results, app_pc,
                   textVars, anVars, fetchVars>>

\* "Fetch Reviews" pressed: a non-empty frame is stored for the selected app
\* and the script is run again; otherwise an error is shown and the run goes on
FetchReviews ==
    /\ app_pc = "ready"
    /\ \E outcome \in FetchOutcomes(selected_app) :
        /\ outcome = "reviews" => fetches < MaxLoads
        /\ IF outcome = "reviews"
           THEN /\ current_reviews' = [set |-> TRUE, app |-> selected_app,
                                       load |-> fetches + 1, labelled |-> FALSE]
                /\ current_app' = selected_app
                /\ fetches' = fetches + 1
           ELSE UNCHANGED <<current_reviews, current_app, fetches>>
    /\ displayed' = Display(selected_app, current_app', current_reviews', analysis_results)
    /\ UNCHANGED <<selected_app, analyze_clicked, analysis_results, app_pc,
                   textVars, anVars, fetchVars>>

\* "Analyze Sentiment" pressed (the button is only there in the analysis
\* section): the loaded frame is analysed, which adds the sentiment column to
\* it, the results are stored and the script is run again; an exception leaves
\* analyze_clicked set and the stored results as they were
AnalyzeSentiment ==
    /\ app_pc = "ready"
    /\ AnalysisSection(selected_app, current_app, current_reviews)
    /\ \E outcome \in {"results", "raise"} :
        IF outcome = "results"
        THEN /\ analysis_results' = [set |-> TRUE, app |-> current_reviews.app,
                                     load |-> current_reviews.load]
             /\ current_reviews' = [current_reviews EXCEPT !.labelled = TRUE]
             /\ analyze_clicked' = FALSE
        ELSE /\ analyze_clicked' = TRUE
             /\ UNCHANGED <<analysis_results, current_reviews>>
    /\ displayed' = Display(selected_app, current_app, current_reviews', analysis_results')
    /\ UNCHANGED <<selected_app, current_app, fetches, app_pc,
                   textVars, anVars, fetchVars>>

NextApp == SelectApp \/ LoadFromKaggle \/ FetchReviews \/ AnalyzeSentiment

SpecApp == InitApp /\ [][NextApp]_vars

---------------------------------------------------------------------------
(* Properties *)

RECURSIVE SumCounts(_)
SumCounts(parts) == IF parts = <<>> THEN 0 ELSE Head(parts).count + SumCounts(Tail(parts))

Labels == {"Positive", "Negative", "Neutral", "Spam", "Inconclusive"}

\* C1: whenever analyze_sentiments_with_vader has returned, the returned
\* batch carries exactly one label per record (the label the loop appended
\* for that record, one of the five categories), each reported count is the
\* number of records with that label, and the reported counts sum to the
\* number of records.
C1_OneLabelPerRecordCountsSum ==
    (pc = "done" /\ ret.set) =>
        /\ ret.df.review = df.review
        /\ SumCounts(ret.summary.parts) = Len(ret.df.review)
        /\ ~IsEmpty(ret.df) =>
             /\ ret.df.has_sentiment
             /\ Len(ret.df.sentiment) = Len(ret.df.review)
             /\ \A i \in 1..Len(ret.df.review) :
                  /\ ret.df.sentiment[i] \in Labels
                  /\ ret.df.sentiment[i] = scored[i].sentiment
                  /\ scored[i].text = str(ret.df.review[i])
             /\ \A c \in 1..Len(ret.summary.parts) :
                  ret.summary.parts[c].count =
                      Cardinality({ i \in 1..Len(ret.df.review) :
                                      ret.df.sentiment[i] = ret.summary.parts[c].category })

\* a returned batch of two records with two different labels, one of them
\* Inconclusive
C1_Witness ==
    /\ pc = "done" /\ ret.set
    /\ Len(ret.df.review) >= 2
    /\ ret.df.sentiment[1] = "Inconclusive"
    /\ ret.df.sentiment[2] = "Positive"

\* C2: with a progress sink and a non-empty batch, the sink is called once
\* per record, after the record is classified, with fractions that stay in
\* [0, 1], never decrease and end at exactly 1, whatever the index labels.
C2_ProgressOncePerRecordMonotone ==
    (progress_bar /\ runs > 0 /\ ~IsEmpty(df)) =>
        /\ \A k \in 1..Len(progress_calls) : InUnit(progress_calls[k])
        /\ \A k \in 1..(Len(progress_calls) - 1) :
             RLe(progress_calls[k], progress_calls[k + 1])
        /\ pc = "loop" => Len(progress_calls) = Len(all_sentiments)
        /\ pc \in {"return", "done"} =>
             /\ Len(progress_calls) = Len(df.review)
             /\ REq(progress_calls[Len(progress_calls)], Rat(1, 1))

\* the adjusted score of a row, from its three signals
C3_AdjustedOf(r) ==
    LET emoji_part == Rat(3 * r.emoji.num, 10 * r.emoji.den)
        with_emoji == Rat(r.base.num * emoji_part.den + emoji_part.num * r.base.den,
                          r.base.den * emoji_part.den)
    IN  IF 5 * r.misspelling.num > r.misspelling.den
        THEN Rat(4 * with_emoji.num, 5 * with_emoji.den)
        ELSE with_emoji

\* C3: a record with non-empty trimmed text is Positive exactly when its
\* adjusted score (lexicon score plus 0.3 times the emoji score, scaled by
\* 0.8 when the misspelling ratio exceeds 0.2) is >= 0.10, Negative exactly
\* when it is <= -0.10, and Neutral exactly when it lies strictly between.
C3_InclusiveThresholds ==
    \A i \in 1..Len(scored) :
        LET r == scored[i]
            a == C3_AdjustedOf(r)
        IN  strip(r.text) # <<>> =>
              /\ r.adjusted = a
              /\ (r.sentiment = "Positive") <=> (10 * a.num >= a.den)
              /\ (r.sentiment = "Negative") <=> (10 * a.num <= -a.den)
              /\ (r.sentiment = "Neutral") <=> (10 * a.num < a.den /\ 10 * a.num > -a.den)
              /\ r.sentiment \in {"Positive", "Negative", "Neutral"}

\* a penalised record whose adjusted score is exactly 0.10, labelled Positive
C3_Witness ==
    /\ pc = "done"
    /\ Len(scored) = 1
    /\ 5 * scored[1].misspelling.num > scored[1].misspelling.den
    /\ 10 * scored[1].adjusted.num = scored[1].adjusted.den
    /\ ret.df.sentiment[1] = "Positive"

\* C4: a record whose text is empty after trimming is labelled Inconclusive
\* and neither the lexicon scorer nor the emoji nor the misspelling
\* extraction is invoked for it; a record whose trimmed text is not empty is
\* never labelled Inconclusive.
C4_EmptyIffInconclusive ==
    \A i \in 1..Len(scored) :
        LET r == scored[i]
        IN  /\ r.text = str(df.review[i])
            /\ strip(r.text) = <<>> =>
                 /\ r.sentiment = "Inconclusive"
                 /\ r.invoked = {}
                 /\ strip(r.text) \notin DOMAIN lexicon
            /\ strip(r.text) # <<>> =>
                 /\ r.sentiment # "Inconclusive"
                 /\ r.invoked = {"lexicon", "emoji", "misspelling"}

\* a whitespace-only text, labelled Inconclusive in the returned batch
C4_Witness ==
    /\ pc = "done"
    /\ Len(scored) = 1
    /\ str(df.review[1]) # <<>>
    /\ strip(str(df.review[1])) = <<>>
    /\ ret.df.sentiment[1] = "Inconclusive"

\* C5: every record gets the label its text got when that text was first
\* classified, wherever the record stands in the batch and whichever call
\* classifies it; and a call on the batch the previous call returned gives
\* the same labels and the same summary.
C5_LabelDependsOnTextOnly ==
    /\ \A i \in 1..Len(scored) :
         /\ scored[i].text \in DOMAIN first_label
         /\ scored[i].sentiment = first_label[scored[i].text]
    /\ \A i, j \in 1..Len(scored) :
         df.review[i] = df.review[j] => scored[i].sentiment = scored[j].sentiment
    /\ (pc = "done" /\ prev_ret.set) =>
         /\ ret.df.review = prev_ret.df.review
         /\ ret.df.sentiment = prev_ret.df.sentiment
         /\ ret.summary = prev_ret.summary

\* the second call, on the labelled batch the first returned, has returned;
\* the batch holds the same penalised text twice
C5_Witness ==
    /\ pc = "done" /\ runs = 2 /\ prev_ret.set
    /\ prev_ret.df.has_sentiment
    /\ Len(df.review) = 2
    /\ df.review[1] = df.review[2]
    /\ scored[2].sentiment = "Neutral"
    /\ RGt(scored[2].misspelling, Rat(2, 10))

\* the label a score maps to
C6_LabelOf(a) ==
    IF 10 * a.num >= a.den THEN "Positive"
    ELSE IF 10 * a.num <= -a.den THEN "Negative"
    ELSE "Neutral"

\* C6: the penalty is applied exactly when the misspelling ratio is strictly
\* greater than 0.20, it multiplies the score by 0.80, and the label with
\* the penalty is either the label without it or Neutral.
C6_PenaltyNeverFlips ==
    \A i \in 1..Len(scored) :
        LET r == scored[i]
            penalised == 5 * r.misspelling.num > r.misspelling.den
        IN  strip(r.text) # <<>> =>
              /\ penalised => r.adjusted = Rat(8 * r.before.num, 10 * r.before.den)
              /\ ~penalised => r.adjusted = r.before
              /\ r.sentiment \in {C6_LabelOf(r.before), "Neutral"}
              /\ C6_LabelOf(r.before) = "Neutral" => r.sentiment = "Neutral"

\* a penalised record that would be Positive without the penalty and is Neutral
C6_Witness ==
    /\ pc = "done"
    /\ Len(scored) = 1
    /\ 5 * scored[1].misspelling.num > scored[1].misspelling.den
    /\ C6_LabelOf(scored[1].before) = "Positive"
    /\ ret.df.sentiment[1] = "Neutral"

\* C7: a call with an empty batch returns at once: the batch as it was, with
\* no sentiment column, and the message "No reviews to analyze."; nothing is
\* raised and neither sink is called.
C7_EmptyBatch ==
    (IsEmpty(df) /\ runs > 0) =>
        /\ pc = "done"
        /\ ret.set
        /\ ret.df = df
        /\ ~ret.df.has_sentiment /\ ret.df.sentiment = <<>>
        /\ ret.summary.title = "No reviews to analyze."
        /\ ret.summary.parts = <<>>
        /\ progress_calls = <<>>
        /\ status_calls = <<>>

\* the call with an empty batch and both sinks has returned
C7_Witness ==
    /\ IsEmpty(df) /\ pc = "done" /\ runs > 0 /\ ret.set
    /\ progress_bar /\ status_text

\* the words of the text (lower-cased) matched by at least one pattern
C8_Matched(words) ==
    { i \in 1..Len(words) : \E p \in 1..NPatterns : words[i] \in misspellings[p] }

\* C8: get_misspelling_score returns (words matching at least one pattern) /
\* (words), each word counted once, in [0, 1], whatever the order in which
\* the pattern set is visited, and 0 when the text has no word.
C8_MisspellingRatio ==
    text_pc = "misspell" =>
        LET words == findall_words(lower(text), 1, <<>>)
        IN  /\ words = <<>> => text_out.num = 0
            /\ words # <<>> =>
                 text_out = Rat(Cardinality(C8_Matched(words)), Len(words))
            /\ text_out.den > 0
            /\ text_out.num >= 0 /\ text_out.num <= text_out.den

\* "gr8 app luv it" scored 3/4 with the pattern set visited in another order
\* than the listed one
C8_Witness ==
    /\ text_pc = "misspell"
    /\ text = SampleGr8
    /\ pattern_order[1] # 1
    /\ text_out = Rat(3, 4)

\* occurrences of table emoji in the text: (position, key)
C9_Occurrences(t) ==
    { <<i, k>> \in (1..Len(t)) \X DOMAIN EMOJI_SENTIMENT :
        i + Len(k) - 1 <= Len(t) /\ SubSeq(t, i, i + Len(k) - 1) = k }

RECURSIVE C9_SumWeights(_)
C9_SumWeights(occ) ==
    IF occ = {} THEN 0
    ELSE LET o == CHOOSE x \in occ : TRUE
         IN  EMOJI_SENTIMENT[o[2]] + C9_SumWeights(occ \ {o})

\* C9: get_emoji_sentiment returns the mean of the table weights of the
\* table emoji occurring in the text (every entry of the table counted where
\* it occurs), within [-1, 1], and 0 when none occurs.
C9_MeanOfTableEmoji ==
    text_pc = "emoji" =>
        LET occ == C9_Occurrences(text)
        IN  /\ REq(text_out, Rat(C9_SumWeights(occ), 100 * Max(1, Cardinality(occ))))
            /\ RGe(text_out, Rat(-1, 1)) /\ RLe(text_out, Rat(1, 1))

\* C10: for an app with the page limit, at most max_pages page requests are
\* made and at most max_pages full pages collected; the loop goes on only
\* after a non-empty page with no review older than the start date and with
\* a continuation token; and every review collected or returned is dated on
\* or after the start date.
C10_BoundedFetch ==
    /\ use_page_limit =>
         /\ requests <= max_pages
         /\ pages_fetched <= requests
         /\ BagCardinality(all_app_reviews) <= max_pages * PageSize
    /\ (fetch_pc = "loop" /\ requests > 0) =>
         /\ response.kind = "page"
         /\ response.size > 0
         /\ response.old = 0
         /\ response.token # "None"
    /\ \A at \in BagToSet(all_app_reviews) \cup BagToSet(fetched) : at >= start_date
    /\ fetch_pc = "done" => fetched = all_app_reviews

\* the fetch stopped by the page limit after max_pages full pages, returned
C10_Witness ==
    /\ fetch_pc = "done"
    /\ use_page_limit
    /\ requests = max_pages
    /\ response.token # "None" /\ response.old = 0
    /\ BagCardinality(fetched) = max_pages * PageSize

\* C11: whenever analysis results are on display under the selected app, they
\* were computed from the reviews that are loaded now for that app: never
\* results of another app or of a review set loaded earlier
C11_DisplayedResultsAreCurrent ==
    displayed.results.set =>
        /\ displayed.results.app = selected_app
        /\ displayed.results.load = current_reviews.load

===========================================================================
